---- MODULE Spec2Model ----
(***************************************************************************)
(* Model of the tmdu-traffic pipeline: spatial matching                    *)
(* (spatial_processor.py, tokyo_road_loader.py), aggregation, congestion   *)
(* classification and statistics (congestion_analyzer.py), and the traffic *)
(* feed with its synthetic fallback (traffic_data.py, pydeck_map_app.py).  *)
(*                                                                         *)
(* Data frames are sequences of rows (records).  A numeric cell is NaN, a   *)
(* number (an exact fraction) or a non-numeric object; an object cell      *)
(* (road_id, road_name) is Null or <<value>>.                              *)
(* Coordinates are integers: a location in EPSG:4326 is a grid cell, and   *)
(* the projection to EPSG:3857 scales a cell to MetresPerUnit metres.      *)
(* Roads are straight streets that cross the whole area, so the planar     *)
(* distance from a point to a road is an integer number of metres.         *)
(***************************************************************************)
EXTENDS Integers, Sequences, FiniteSets, TLC

VARIABLES
    max_distance,     \* SpatialProcessor.max_distance
    _road_gdf,        \* SpatialProcessor._road_gdf (None until a join succeeds)
    traffic_gdf,      \* observation frame handed to the spatial calls
    traffic_crs,      \* its CRS ("EPSG:4326", or "naive" when it has none)
    columns,          \* the numeric columns it has, among speed (平均速度),
                      \* travel_time (旅行時間) and link_length (リンク長)
    road_gdf,         \* road frame handed to the spatial calls
    other_road_gdf,   \* a second road frame, used by other calls on the processor
    joined,           \* value returned by join_traffic_roads(traffic_gdf, road_gdf)
    linked,           \* value returned by attach_nearest_road(traffic_gdf, road_gdf)
    aggregated,       \* value returned by aggregate_by_road(joined, road_gdf)
    coverage,         \* value returned by calculate_road_coverage
    thresholds,       \* argument of CongestionAnalyzer(speed_thresholds=...)
    speed_thresholds, \* CongestionAnalyzer.speed_thresholds
    congestion_data,  \* value returned by calculate_congestion_level
    stats,            \* value returned by generate_statistics
    rerun,            \* a later classification of the same frame, and the
                      \* thresholds selected for it
    use_mock,         \* TrafficDataFetcher.use_mock
    now,              \* the wall clock, in minutes since midnight
    live,             \* what the live feed answers to a request
    bbox,             \* (minLon, minLat, maxLon, maxLat) of the requests
    raw_gdf,          \* frame handed to validate_traffic_data
    validated,        \* value returned by validate_traffic_data
    fetched,          \* value returned by fetch_traffic_data / _generate_mock_data
    origin,           \* where the observations in fetched were produced
    status_info,      \* status_info['data_source'] of load_and_process_data
    history,          \* what the previous run of the same calls returned
    _cached_roads,    \* RoadDataLoader._cached_roads (None until a load succeeds)
    archive,          \* the shapefile in the archive at zip_path
    loaded,           \* value returned by the last load_road_network call
    road_loads,       \* number of load_road_network calls made
    archive_reads,    \* number of _load_from_zip calls made
    cache_data,       \* the entry st.cache_data holds for create_traffic_map
    pc                \* which calls the caller has made so far

spatialVars == <<max_distance, _road_gdf, traffic_gdf, traffic_crs, columns,
                 road_gdf, other_road_gdf, joined, linked, aggregated, coverage>>

analyzerVars == <<thresholds, speed_thresholds, congestion_data, stats, rerun>>

feedVars == <<use_mock, now, live, bbox, raw_gdf, validated, fetched, origin,
              status_info, history>>

loaderVars == <<_cached_roads, archive, loaded, road_loads, archive_reads>>

appVars == <<cache_data>>

vars == <<spatialVars, analyzerVars, feedVars, loaderVars, appVars, pc>>

----------------------------------------------------------------------------
(* Values *)

\* numeric cells: NaN, a number num/den (den > 0, lowest terms), or an object
\* that is not a number (a string such as 'abc')
NaN == [k |-> "nan", num |-> 0, den |-> 1]
NonNumeric == [k |-> "str", num |-> 0, den |-> 1]

Abs(n) == IF n < 0 THEN -n ELSE n

RECURSIVE GCD(_, _)
GCD(a, b) == IF b = 0 THEN a ELSE GCD(b, a % b)

Frac(n, d) ==
    LET g == GCD(Abs(n), d)
    IN [k |-> "num", num |-> n \div g, den |-> d \div g]
Num(n) == [k |-> "num", num |-> n, den |-> 1]

notna(x) == x.k # "nan"
isna(x) == x.k = "nan"
IsNum(x) == x.k = "num"

\* a >= b, a <= b and a < b on numbers
Ge(a, b) == a.num * b.den >= b.num * a.den
Le(a, b) == a.num * b.den <= b.num * a.den
Lt(a, b) == a.num * b.den < b.num * a.den

\* object cells
Null == <<>>
Some(v) == <<v>>

\* An attribute that is None, and one that holds a frame
None == [is_none |-> TRUE, rows |-> <<>>]
Frame(rows) == [is_none |-> FALSE, rows |-> rows]

\* What a call gave its caller: nothing yet, a frame, or an exception
NotCalled == [called |-> FALSE, raised |-> "", rows |-> <<>>]
Returned(rows) == [called |-> TRUE, raised |-> "", rows |-> rows]
Raised(e) == [called |-> TRUE, raised |-> e, rows |-> <<>>]

SeqsUpTo(S, n) == UNION {[1..k -> S] : k \in 0..n}

RECURSIVE Concat(_)
Concat(ss) == IF ss = <<>> THEN <<>> ELSE Head(ss) \o Concat(Tail(ss))

RECURSIVE SortedSeq(_)
SortedSeq(S) ==
    IF S = {} THEN <<>>
    ELSE LET m == CHOOSE x \in S : \A y \in S : x <= y
         IN <<m>> \o SortedSeq(S \ {m})

RECURSIVE SumSeq(_)
SumSeq(s) == IF s = <<>> THEN 0 ELSE Head(s) + SumSeq(Tail(s))

\* the rows of s at the positions in I, in order
Take(s, I) == LET ix == SortedSeq(I) IN [n \in 1..Len(ix) |-> s[ix[n]]]

----------------------------------------------------------------------------
(* Bounds of the model *)

MaxObs == 2          \* observations per frame
MaxRoads == 2        \* roads per frame
MetresPerUnit == 100 \* metres of EPSG:3857 per grid cell of EPSG:4326
MaxRuns == 2         \* runs of the same calls that are compared
MaxRaw == 2          \* rows of a frame as the live feed delivers it

\* clock readings (minutes since midnight): 08:10, 08:40, 09:05, 12:10, 23:10
Instants == {8 * 60 + 10, 8 * 60 + 40, 9 * 60 + 5, 12 * 60 + 10, 23 * 60 + 10}

XCoords == 0..2
YCoords == 0..1
Locations == XCoords \X YCoords

\* areas a caller asks for: the whole area, a part of it, a single point
AreaBoxes == {<<0, 0, 2, 1>>, <<1, 0, 2, 1>>, <<1, 1, 1, 1>>}

\* A street: axis "h" is the line y = c, axis "v" is the line x = c.
Geometries == [axis : {"h"}, c : YCoords] \cup [axis : {"v"}, c : XCoords]
NoGeometry == [axis |-> "none", c |-> 0]

\* road ids in the order pandas sorts them
RoadIdOrder == <<"001", "002", "003", "004">>
id_rank(id) == CHOOSE n \in 1..Len(RoadIdOrder) : RoadIdOrder[n] = id

NumericColumns == {"speed", "travel_time", "link_length"}

----------------------------------------------------------------------------
(* spatial_processor.py: SpatialProcessor *)

\* GeoSeries.to_crs('EPSG:3857') on a point and on a street
to_crs_3857(p) == <<p[1] * MetresPerUnit, p[2] * MetresPerUnit>>
to_crs_3857_line(g) == [axis |-> g.axis, c |-> g.c * MetresPerUnit]
\* GeoSeries.to_crs('EPSG:4326') on a projected point
to_crs_4326(p) == <<p[1] \div MetresPerUnit, p[2] \div MetresPerUnit>>

\* planar distance in metres between a projected point and a projected street
distance(p, g) == IF g.axis = "h" THEN Abs(p[2] - g.c) ELSE Abs(p[1] - g.c)

nearest_ignoring_max_distance(p, roads_m, d) ==
    {j \in 1..Len(roads_m) :
        \A k \in 1..Len(roads_m) :
            distance(p, roads_m[j].geometry) <= distance(p, roads_m[k].geometry)}

\* sindex.nearest(..., return_all=True, max_distance=d) for one point: the
\* positions of every road at the minimum distance, when that is within d
nearest(p, roads_m, d) ==
    {j \in 1..Len(roads_m) :
        /\ distance(p, roads_m[j].geometry) <= d
        /\ \A k \in 1..Len(roads_m) :
              distance(p, roads_m[j].geometry) <= distance(p, roads_m[k].geometry)}

\* one output row of the left join: the observation's columns, the matched
\* road's columns and the distance column
joined_row(i, obs_m, road_id, road_name, dist) ==
    [index |-> i,
     loc |-> obs_m.loc,
     speed |-> obs_m.speed,
     travel_time |-> obs_m.travel_time,
     link_length |-> obs_m.link_length,
     road_id |-> road_id,
     road_name |-> road_name,
     distance_to_road |-> dist]

\* gpd.sjoin_nearest(left, right, how='left', max_distance=d, distance_col=...)
sjoin_nearest(left_m, right_m, d) ==
    Concat([i \in 1..Len(left_m) |->
        LET hits == SortedSeq(nearest(left_m[i].loc, right_m, d))
        IN IF hits = <<>>
           THEN <<joined_row(i, left_m[i], Null, Null, NaN)>>
           ELSE [n \in 1..Len(hits) |->
                    joined_row(i, left_m[i],
                        right_m[hits[n]].road_id, right_m[hits[n]].road_name,
                        Num(distance(left_m[i].loc, right_m[hits[n]].geometry)))]])

\* a join that does not look for empty inputs first
join_without_empty_check(traffic, crs, roads, d) ==
    IF crs = "naive"
    THEN [saved |-> FALSE, result |-> <<>>]
    ELSE LET traffic_utm == [i \in 1..Len(traffic) |->
                 [traffic[i] EXCEPT !.loc = to_crs_3857(@)]]
             road_utm == [j \in 1..Len(roads) |->
                 [roads[j] EXCEPT !.geometry = to_crs_3857_line(@)]]
             out == sjoin_nearest(traffic_utm, road_utm, d)
         IN [saved |-> TRUE,
             result |-> [n \in 1..Len(out) |->
                 [out[n] EXCEPT !.loc = to_crs_4326(@)]]]

\* join_traffic_roads: the frame returned, and whether the call reached the
\* line that stores road_gdf in self._road_gdf.  A frame without CRS makes
\* to_crs raise, and the except branch returns the empty frame.
join_traffic_roads(traffic, crs, roads, d) ==
    IF traffic = <<>> \/ roads = <<>>
    THEN [saved |-> FALSE, result |-> <<>>]
    ELSE IF crs = "naive"
    THEN [saved |-> FALSE, result |-> <<>>]
    ELSE LET traffic_utm == [i \in 1..Len(traffic) |->
                 [traffic[i] EXCEPT !.loc = to_crs_3857(@)]]
             road_utm == [j \in 1..Len(roads) |->
                 [roads[j] EXCEPT !.geometry = to_crs_3857_line(@)]]
             out == sjoin_nearest(traffic_utm, road_utm, d)
         IN [saved |-> TRUE,
             result |-> [n \in 1..Len(out) |->
                 [out[n] EXCEPT !.loc = to_crs_4326(@)]]]

\* numbers: sum and mean of the numeric cells of a column
QAdd(a, b) ==
    LET g == GCD(a.den, b.den)
    IN Frac(a.num * (b.den \div g) + b.num * (a.den \div g),
            (a.den \div g) * b.den)

RECURSIVE QSum(_)
QSum(xs) == IF xs = <<>> THEN Num(0) ELSE QAdd(Head(xs), QSum(Tail(xs)))

\* a mean that counts a NaN cell as zero
mean_with_zero_for_null(cells) ==
    IF cells = <<>> THEN NaN
    ELSE LET xs == [n \in 1..Len(cells) |->
                       IF notna(cells[n]) THEN cells[n] ELSE Num(0)]
         IN Frac(QSum(xs).num, QSum(xs).den * Len(xs))

\* Series.mean(): NaN cells are skipped, a column of NaN gives NaN
mean(cells) ==
    LET xs == SelectSeq(cells, notna)
    IN IF xs = <<>> THEN NaN
       ELSE Frac(QSum(xs).num, QSum(xs).den * Len(xs))

\* the value of the first record, null or not
head_value(cells) == IF cells = <<>> THEN Null ELSE Head(cells)

\* GroupBy.first(): the first value that is not null
RECURSIVE first(_)
first(cells) ==
    IF cells = <<>> THEN Null
    ELSE IF Head(cells) # Null THEN Head(cells)
    ELSE first(Tail(cells))

count_of_speeds(group) == Len(SelectSeq(group, LAMBDA r : notna(r.speed)))

\* GroupBy.size(): the number of rows of the group
size(group) == Len(group)

Column(rows, c) ==
    [n \in 1..Len(rows) |->
        CASE c = "speed" -> rows[n].speed
          [] c = "travel_time" -> rows[n].travel_time
          [] c = "link_length" -> rows[n].link_length
          [] c = "distance_to_road" -> rows[n].distance_to_road]

\* lines 153-162: the geometry of a road id is looked up in self._road_gdf;
\* the road_gdf argument is not read
geometry_of(road_id, road_gdf_arg, self_road_gdf) ==
    IF self_road_gdf.is_none THEN NoGeometry
    ELSE LET matching_roads ==
                 SelectSeq(self_road_gdf.rows, LAMBDA r : r.road_id = road_id)
         IN IF matching_roads = <<>> THEN NoGeometry
            ELSE matching_roads[1].geometry

\* a cell that GroupBy.mean accepts: a number or NaN; a str cell makes the
\* aggregation raise
aggregable(x) == x.k \in {"num", "nan"}

\* aggregate_by_road(joined_gdf, road_gdf) on a processor whose _road_gdf is
\* self_road_gdf; cols are the numeric columns joined_gdf has.  An exception
\* of the aggregation is caught at line 179 and gives the empty frame.
aggregate_by_road(joined_gdf, cols, road_gdf_arg, self_road_gdf) ==
    LET valid_data == Take(joined_gdf,
            {n \in 1..Len(joined_gdf) : joined_gdf[n].road_id # Null})
        ids == {valid_data[n].road_id : n \in 1..Len(valid_data)}
        ranks == SortedSeq({id_rank(id[1]) : id \in ids})
        group(id) == SelectSeq(valid_data, LAMBDA r : r.road_id = id)
        agg(col, id) == IF col \in cols THEN mean(Column(group(id), col)) ELSE NaN
    IN IF joined_gdf = <<>> THEN <<>>
       ELSE IF valid_data = <<>> THEN <<>>
       ELSE IF cols \cap NumericColumns = {} THEN <<>>
       ELSE IF \E col \in cols \cap NumericColumns : \E n \in 1..Len(valid_data) :
                   ~aggregable(Column(valid_data, col)[n])
       THEN <<>>
       ELSE [g \in 1..Len(ranks) |->
               LET id == Some(RoadIdOrder[ranks[g]])
               IN [road_id |-> id,
                   speed |-> agg("speed", id),
                   travel_time |-> agg("travel_time", id),
                   link_length |-> agg("link_length", id),
                   road_name |-> first([n \in 1..Len(group(id)) |->
                                           group(id)[n].road_name]),
                   distance_to_road |-> mean(Column(group(id), "distance_to_road")),
                   observation_count |-> Num(size(group(id))),
                   geometry |-> geometry_of(id, road_gdf_arg, self_road_gdf)]]

\* calculate_road_coverage: the dict returned (keys lists the keys it has)
NoDict == [keys |-> {}, coverage_rate |-> NaN, matched_roads |-> 0,
           total_roads |-> 0, traffic_points |-> 0, matched_points |-> 0]

calculate_road_coverage(traffic, crs, roads, d) ==
    LET j == join_traffic_roads(traffic, crs, roads, d)
        matched == SelectSeq(j.result, LAMBDA r : r.road_id # Null)
        matched_roads == Cardinality({matched[n].road_id : n \in 1..Len(matched)})
    IN IF traffic = <<>> \/ roads = <<>>
       THEN [saved |-> FALSE, result |-> NoDict]
       ELSE IF j.result = <<>>
       THEN [saved |-> j.saved,
             result |-> [NoDict EXCEPT
                 !.keys = {"coverage_rate", "matched_roads", "total_roads"},
                 !.coverage_rate = Num(0),
                 !.total_roads = Len(roads)]]
       ELSE [saved |-> j.saved,
             result |-> [keys |-> {"coverage_rate", "matched_roads", "total_roads",
                                   "traffic_points", "matched_points",
                                   "distance_stats"},
                         coverage_rate |-> Frac(matched_roads, Len(roads)),
                         matched_roads |-> matched_roads,
                         total_roads |-> Len(roads),
                         traffic_points |-> Len(traffic),
                         matched_points |-> Len(matched)]]

\* the caller joins traffic_gdf with road_gdf and keeps the result
JoinTrafficRoads ==
    /\ pc \in {"start", "fetched"}
    /\ LET r == join_traffic_roads(traffic_gdf, traffic_crs, road_gdf, max_distance)
       IN /\ joined' = Returned(r.result)
          /\ _road_gdf' = IF r.saved THEN Frame(road_gdf) ELSE _road_gdf
    /\ pc' = "joined"
    /\ UNCHANGED <<appVars, loaderVars, max_distance, traffic_gdf, traffic_crs, columns, road_gdf,
                   other_road_gdf, linked, aggregated, coverage, analyzerVars, feedVars>>

\* another join on the same processor, against other_road_gdf, with an
\* observation frame that may lack its CRS; its result is dropped
JoinOtherRoads ==
    /\ pc \in {"start", "joined"}
    /\ \E crs \in {"EPSG:4326", "naive"} :
          LET r == join_traffic_roads(traffic_gdf, crs, other_road_gdf, max_distance)
          IN _road_gdf' = IF r.saved THEN Frame(other_road_gdf) ELSE _road_gdf
    /\ UNCHANGED <<appVars, loaderVars, max_distance, traffic_gdf, traffic_crs, columns, road_gdf,
                   other_road_gdf, joined, linked, aggregated, coverage,
                   analyzerVars, feedVars, pc>>

\* a coverage analysis on the same processor, against other_road_gdf
CalculateRoadCoverage ==
    /\ pc \in {"start", "joined"}
    /\ LET r == calculate_road_coverage(traffic_gdf, traffic_crs, other_road_gdf,
                                        max_distance)
       IN /\ coverage' = r.result
          /\ _road_gdf' = IF r.saved THEN Frame(other_road_gdf) ELSE _road_gdf
    /\ UNCHANGED <<appVars, loaderVars, max_distance, traffic_gdf, traffic_crs, columns, road_gdf,
                   other_road_gdf, joined, linked, aggregated, analyzerVars, feedVars, pc>>

\* the caller aggregates the join result it holds, naming the roads it was
\* joined against
AggregateByRoad ==
    /\ pc = "joined"
    /\ aggregated' = Returned(
           aggregate_by_road(joined.rows, columns, road_gdf, _road_gdf))
    /\ pc' = "aggregated"
    /\ UNCHANGED <<appVars, loaderVars, max_distance, _road_gdf, traffic_gdf, traffic_crs, columns,
                   road_gdf, other_road_gdf, joined, linked, coverage,
                   analyzerVars, feedVars>>

----------------------------------------------------------------------------
(* tokyo_road_loader.py: attach_nearest_road *)

\* to_crs raises on a frame without CRS; the assignment
\* gdf_obs["road_id"] = joined["road_id"].values raises ValueError when the
\* two lengths differ
attach_nearest_road(obs, crs, roads, d) ==
    LET obs_m == [i \in 1..Len(obs) |-> [obs[i] EXCEPT !.loc = to_crs_3857(@)]]
        roads_m == [j \in 1..Len(roads) |->
                       [roads[j] EXCEPT !.geometry = to_crs_3857_line(@)]]
        out == sjoin_nearest(obs_m, roads_m, d)
    IN IF crs = "naive" THEN Raised("ValueError")
       ELSE IF Len(out) # Len(obs) THEN Raised("ValueError")
       ELSE Returned([i \in 1..Len(obs) |->
                [loc |-> obs[i].loc, road_id |-> out[i].road_id]])

AttachNearestRoad ==
    /\ pc \in {"start", "joined"}
    /\ ~linked.called
    /\ linked' = attach_nearest_road(traffic_gdf, traffic_crs, road_gdf, max_distance)
    /\ UNCHANGED <<appVars, loaderVars, max_distance, _road_gdf, traffic_gdf, traffic_crs, columns,
                   road_gdf, other_road_gdf, joined, aggregated, coverage,
                   analyzerVars, feedVars, pc>>

----------------------------------------------------------------------------
(* config.py and congestion_analyzer.py: CongestionAnalyzer *)

CONGESTION_COLORS ==
    [low |-> "#00ff00", medium |-> "#ffff00", high |-> "#ff0000",
     unknown |-> "#808080"]

CONGESTION_THRESHOLDS == [high_speed |-> 30, medium_speed |-> 20]

\* 空いている, やや混雑, 混雑, データなし
congestion_labels ==
    [low |-> "free", medium |-> "somewhat congested", high |-> "congested",
     unknown |-> "no data"]

Levels == {"low", "medium", "high", "unknown"}

\* the speed_thresholds argument of the constructor: None (or an empty
\* dict), or a dict with both keys
NoThresholds == [is_none |-> TRUE, high_speed |-> 0, medium_speed |-> 0]
Thresholds(h, m) == [is_none |-> FALSE, high_speed |-> h, medium_speed |-> m]

\* __init__: speed_thresholds or CONGESTION_THRESHOLDS
CongestionAnalyzer(arg) ==
    IF arg.is_none THEN CONGESTION_THRESHOLDS
    ELSE [high_speed |-> arg.high_speed, medium_speed |-> arg.medium_speed]

\* a string that reads as a number, such as '32'
NumericString(n) == [k |-> "numstr", num |-> n, den |-> 1]

\* pd.to_numeric(x, errors='coerce') on one cell
to_numeric(x) ==
    CASE x.k = "num" -> x
      [] x.k = "numstr" -> [x EXCEPT !.k = "num"]
      [] OTHER -> NaN

\* elementwise s <= t
le(s, t) == IsNum(s) /\ Le(s, Num(t))

\* elementwise s >= t and s < t of a numeric series: False on NaN
ge(s, t) == IsNum(s) /\ Ge(s, Num(t))
lt(s, t) == IsNum(s) /\ Lt(s, Num(t))

np_select_last_match(conditions, choices, default) ==
    LET hits == {i \in 1..Len(conditions) : conditions[i]}
    IN IF hits = {} THEN default
       ELSE choices[CHOOSE i \in hits : \A j \in hits : j <= i]

\* np.select(conditions, choices, default): the choice of the first
\* condition that holds
np_select(conditions, choices, default) ==
    LET hits == {i \in 1..Len(conditions) : conditions[i]}
    IN IF hits = {} THEN default
       ELSE choices[CHOOSE i \in hits : \A j \in hits : i <= j]

\* lines 41-59: the level of one speed cell
congestion_level(speed, th) ==
    LET speeds == to_numeric(speed)
        conditions == <<ge(speeds, th.high_speed),
                        ge(speeds, th.medium_speed),
                        lt(speeds, th.medium_speed)>>
        choices == <<"low", "medium", "high">>
    IN np_select(conditions, choices, "unknown")

\* a classification that leaves out the rows whose speed is not a number
classify_numeric_rows(gdf, cols, th) ==
    LET known == SelectSeq(gdf, LAMBDA r :
                     "speed" \in cols /\ IsNum(to_numeric(r.speed)))
    IN [n \in 1..Len(known) |->
            LET level == congestion_level(known[n].speed, th)
            IN [road_id |-> known[n].road_id,
                speed |-> known[n].speed,
                travel_time |-> known[n].travel_time,
                observation_count |-> known[n].observation_count,
                congestion_level |-> level,
                congestion_color |-> CONGESTION_COLORS[level],
                speed_category |-> congestion_labels[level]]]

\* calculate_congestion_level(gdf) for a frame with the columns cols
calculate_congestion_level(gdf, cols, th) ==
    IF gdf = <<>> THEN gdf
    ELSE [n \in 1..Len(gdf) |->
            LET level == IF "speed" \notin cols THEN "unknown"
                         ELSE congestion_level(gdf[n].speed, th)
            IN [road_id |-> gdf[n].road_id,
                speed |-> gdf[n].speed,
                travel_time |-> gdf[n].travel_time,
                observation_count |-> gdf[n].observation_count,
                congestion_level |-> level,
                congestion_color |-> CONGESTION_COLORS[level],
                speed_category |-> congestion_labels[level]]]

\* n/d with the fraction dropped
RoundDown(n, d) == n \div d

\* n/d rounded to the nearest integer, a tie to the even one (numpy.round)
RoundHalfEven(n, d) ==
    LET q == n \div d
        r == n % d
    IN IF 2 * r < d THEN q
       ELSE IF 2 * r > d THEN q + 1
       ELSE IF q % 2 = 0 THEN q ELSE q + 1

\* Timestamp.isoformat() of a clock reading: hour and minute
isoformat(t) == <<t \div 60, t % 60>>

\* Series.min() and Series.max() of a non-empty series of numbers
min(xs) == CHOOSE x \in {xs[n] : n \in 1..Len(xs)} :
               \A n \in 1..Len(xs) : Le(x, xs[n])
max(xs) == CHOOSE x \in {xs[n] : n \in 1..Len(xs)} :
               \A n \in 1..Len(xs) : Le(xs[n], x)

NoStats == [keys |-> {}, count |-> 0, mean |-> NaN, min |-> NaN, max |-> NaN]

\* lines 116-143: the statistics of one numeric column (median, std and the
\* quartiles are keys of the dict; their values are not modelled)
column_stats(cells, names) ==
    LET data == SelectSeq([n \in 1..Len(cells) |-> to_numeric(cells[n])], notna)
    IN IF data = <<>> THEN NoStats
       ELSE [keys |-> names, count |-> Len(data), mean |-> mean(data),
             min |-> min(data), max |-> max(data)]

NoObservationStats ==
    [keys |-> {}, total_observations |-> 0, mean_per_road |-> NaN,
     max_per_road |-> 0, roads_with_data |-> 0]

\* int(x) of a number: the fraction is dropped
int(x) == x.num \div x.den

\* lines 145-153: the statistics of the observation counts that are numbers;
\* no dict when there is none
observation_stats(counts) ==
    LET obs_data == SelectSeq([n \in 1..Len(counts) |-> to_numeric(counts[n])],
                             notna)
    IN IF obs_data = <<>> THEN NoObservationStats
       ELSE [keys |-> {"total_observations", "mean_per_road", "max_per_road",
                       "roads_with_data"},
             total_observations |-> int(QSum(obs_data)),
             mean_per_road |-> mean(obs_data),
             max_per_road |-> int(max(obs_data)),
             roads_with_data |->
                 Len(SelectSeq(obs_data, LAMBDA c : Lt(Num(0), c)))]

\* generate_statistics(gdf) for a frame with the columns cols, at clock
\* reading t.  congestion_percentage is held in tenths of a percent.
generate_statistics(gdf, cols, t) ==
    LET total_roads == Len(gdf)
        present == IF "congestion_level" \in cols
                   THEN {gdf[n].congestion_level : n \in 1..Len(gdf)}
                   ELSE {}
        level_counts == [l \in present |->
            Cardinality({n \in 1..Len(gdf) : gdf[n].congestion_level = l})]
        level_percentages == [l \in present |->
            RoundHalfEven(level_counts[l] * 1000, total_roads)]
        speed_data == column_stats(Column(gdf, "speed"),
            {"count", "mean", "median", "min", "max", "std", "q25", "q75"})
        travel_time_data == column_stats(Column(gdf, "travel_time"),
            {"count", "mean", "median", "min", "max"})
        obs_stats == observation_stats([n \in 1..Len(gdf) |->
                                           gdf[n].observation_count])
    IN IF gdf = <<>>
       THEN [keys |-> {"total_roads", "congestion_distribution",
                       "congestion_percentage", "speed_stats",
                       "analysis_timestamp"},
             total_roads |-> 0,
             congestion_distribution |-> <<>>,
             congestion_percentage |-> <<>>,
             speed_stats |-> NoStats,
             travel_time_stats |-> NoStats,
             observation_stats |-> NoObservationStats,
             analysis_timestamp |-> isoformat(t)]
       ELSE [keys |-> {"total_roads", "congestion_distribution",
                       "congestion_percentage", "analysis_timestamp"}
                      \cup (IF "speed" \in cols THEN {"speed_stats"} ELSE {})
                      \cup (IF "travel_time" \in cols /\ travel_time_data.keys # {}
                            THEN {"travel_time_stats"} ELSE {})
                      \cup (IF "observation_count" \in cols /\ obs_stats.keys # {}
                            THEN {"observation_stats"} ELSE {}),
             total_roads |-> total_roads,
             congestion_distribution |-> level_counts,
             congestion_percentage |-> level_percentages,
             speed_stats |-> IF "speed" \notin cols THEN NoStats
                             ELSE IF speed_data.keys = {}
                             THEN [NoStats EXCEPT !.keys = {"count"}]
                             ELSE speed_data,
             travel_time_stats |-> IF "travel_time" \in cols
                                   THEN travel_time_data ELSE NoStats,
             observation_stats |-> IF "observation_count" \in cols
                                   THEN obs_stats ELSE NoObservationStats,
             analysis_timestamp |-> isoformat(t)]

NoStatistics ==
    [keys |-> {}, total_roads |-> 0, congestion_distribution |-> <<>>,
     congestion_percentage |-> <<>>, speed_stats |-> NoStats,
     travel_time_stats |-> NoStats, observation_stats |-> NoObservationStats,
     analysis_timestamp |-> <<0, 0>>]

\* the caller classifies the aggregated frame it holds
CalculateCongestionLevel ==
    /\ pc = "aggregated"
    /\ congestion_data' = Returned(
           calculate_congestion_level(aggregated.rows, columns, speed_thresholds))
    /\ columns' = IF aggregated.rows = <<>> THEN columns
                  ELSE columns \cup {"congestion_level", "congestion_color",
                                     "speed_category"}
    /\ pc' = "classified"
    /\ UNCHANGED <<appVars, loaderVars, max_distance, _road_gdf, traffic_gdf, traffic_crs, road_gdf,
                   other_road_gdf, joined, linked, aggregated, coverage,
                   thresholds, speed_thresholds, stats, rerun, feedVars>>

NoRerun == [called |-> FALSE, high_speed |-> 0, medium_speed |-> 0, rows |-> <<>>]

\* values of the high_speed slider (app.py lines 93-99: 20 to 50)
HighSpeeds == {20, 30, 40, 50}

\* a later run (app.py lines 315 and 349): an analyzer built with the
\* high_speed the user has selected classifies the same aggregated frame
CalculateCongestionLevelAgain ==
    /\ pc = "classified"
    /\ ~rerun.called
    /\ \E h \in HighSpeeds :
          LET selected == [speed_thresholds EXCEPT !.high_speed = h]
          IN rerun' = [called |-> TRUE, high_speed |-> selected.high_speed,
                       medium_speed |-> selected.medium_speed,
                       rows |-> calculate_congestion_level(
                                    aggregated.rows, columns, selected)]
    /\ UNCHANGED <<appVars, loaderVars, spatialVars, thresholds, speed_thresholds,
                   congestion_data, stats, feedVars, pc>>

\* the caller summarises the classified frame it holds
GenerateStatistics ==
    /\ pc = "classified"
    /\ stats' = generate_statistics(congestion_data.rows, columns, now)
    /\ history' = Append(history,
           [at |-> now, fetched |-> fetched.rows, stats |-> stats',
            levels |-> [n \in 1..Len(congestion_data.rows) |->
                           congestion_data.rows[n].congestion_level]])
    /\ pc' = "summarized"
    /\ UNCHANGED <<appVars, loaderVars, spatialVars, thresholds, speed_thresholds,
                   congestion_data, rerun, use_mock, now, live, bbox, raw_gdf, validated, fetched,
                   origin, status_info>>

----------------------------------------------------------------------------
(* traffic_data.py: TrafficDataFetcher *)

n_points == 2        \* observations of a synthetic frame (200 in the source)

\* np.random.seed(42)
seed == 42

\* the k-th value of the generator's stream after np.random.seed(s)
random_state(s, k) == (s * k * k + k + s) % 103

\* np.random.uniform(lo, hi) and np.random.normal(0, 5) from a stream value
uniform(lo, hi, u) == lo + (u % (hi - lo + 1))
normal(u) == ((u % 3) - 1) * 5

QMul(a, b) == Frac(a.num * b.num, a.den * b.den)

\* np.sqrt, to the integer below
sqrt(n) == CHOOSE r \in 0..10 : r * r <= n /\ n < (r + 1) * (r + 1)

\* np.clip(x, lo, hi); NaN stays NaN
clip(x, lo, hi) ==
    IF isna(x) THEN x
    ELSE IF Lt(x, Num(lo)) THEN Num(lo)
    ELSE IF Lt(Num(hi), x) THEN Num(hi)
    ELSE x

\* lines 90-97: the time-of-day factor
speed_factor(current_hour) ==
    IF (7 <= current_hour /\ current_hour <= 9)
           \/ (17 <= current_hour /\ current_hour <= 19)
    THEN Frac(6, 10)
    ELSE IF 22 <= current_hour \/ current_hour <= 5 THEN Frac(13, 10)
    ELSE Num(1)

\* datetime.now().hour of a clock reading
hour(t) == t \div 60

\* int(strftime("%Y%m%d%H%M")) of a clock reading, within one day: HHMM
strftime(t) == (t \div 60) * 100 + (t % 60)

\* lines 84-88: baseline speeds, 50 at the centre of the box down to 20 at
\* the farthest point; twice the offsets from the centre keep them integers,
\* and the ratio distances / distances.max() is held in tenths.  A box of
\* one point has distances.max() = 0, and 0/0 is NaN.
base_speeds(lons, lats, box) ==
    LET d2(i) == (2 * lons[i] - (box[1] + box[3])) * (2 * lons[i] - (box[1] + box[3]))
               + (2 * lats[i] - (box[2] + box[4])) * (2 * lats[i] - (box[2] + box[4]))
        d2max == CHOOSE m \in {d2(i) : i \in 1..Len(lons)} :
                     \A i \in 1..Len(lons) : d2(i) <= m
    IN [i \in 1..Len(lons) |->
           IF d2max = 0 THEN NaN
           ELSE Num(50 - 3 * sqrt((d2(i) * 100) \div d2max))]

\* _generate_mock_data(bbox) at clock reading t; the travel time
\* (link_lengths / 1000) / (speeds / 3600) is held to a tenth of a second
_generate_mock_data(box, t) ==
    LET lons == [i \in 1..n_points |->
                    uniform(box[1], box[3], random_state(seed, i))]
        lats == [i \in 1..n_points |->
                    uniform(box[2], box[4], random_state(seed, n_points + i))]
        base == base_speeds(lons, lats, box)
        noise == [i \in 1..n_points |->
                    normal(random_state(seed, 2 * n_points + i))]
        speeds == [i \in 1..n_points |->
                    IF isna(base[i]) THEN NaN
                    ELSE clip(QAdd(QMul(base[i], speed_factor(hour(t))),
                                   Num(noise[i])), 5, 80)]
        link_lengths == [i \in 1..n_points |->
                    uniform(50, 200, random_state(seed, 3 * n_points + i))]
    IN [i \in 1..n_points |->
           [loc |-> <<lons[i], lats[i]>>,
            time_code |-> strftime(t),
            speed |-> speeds[i],
            travel_time |-> IF isna(speeds[i]) THEN NaN
                            ELSE Frac(RoundHalfEven(
                                          link_lengths[i] * 180 * speeds[i].den,
                                          5 * speeds[i].num), 10),
            link_length |-> Num(link_lengths[i])]]

\* a cell that an elementwise comparison with a number accepts: a number or
\* NaN; a str cell of an object column raises TypeError
comparable(x) == x.k \in {"num", "nan"}

\* validate_traffic_data(gdf) for a frame with the numeric columns cols
validate_traffic_data(gdf, cols) ==
    LET after_speed ==
            IF "speed" \in cols
            THEN SelectSeq(gdf, LAMBDA r :
                     IsNum(r.speed) /\ Ge(r.speed, Num(0)) /\ Le(r.speed, Num(150)))
            ELSE gdf
        after_time ==
            IF "travel_time" \in cols
            THEN SelectSeq(after_speed, LAMBDA r :
                     IsNum(r.travel_time) /\ Ge(r.travel_time, Num(0)))
            ELSE after_speed
        converted == [n \in 1..Len(after_time) |->
            [after_time[n] EXCEPT
                !.speed = IF "speed" \in cols THEN to_numeric(@) ELSE @,
                !.travel_time = IF "travel_time" \in cols THEN to_numeric(@) ELSE @,
                !.link_length = IF "link_length" \in cols THEN to_numeric(@) ELSE @]]
    IN IF gdf = <<>> THEN Returned(gdf)
       ELSE IF "speed" \in cols
               /\ \E n \in 1..Len(gdf) : ~comparable(gdf[n].speed)
       THEN Raised("TypeError")
       ELSE IF "travel_time" \in cols
               /\ \E n \in 1..Len(after_speed) :
                      ~comparable(after_speed[n].travel_time)
       THEN Raised("TypeError")
       ELSE Returned(SelectSeq(converted, LAMBDA r : r.loc # <<>>))

\* what requests.get(...), raise_for_status() and response.json() give: a
\* document with features ("ok", rows possibly empty), or an exception
\* ("timeout", "http_error": requests.RequestException; "bad_json")
NoFeed == [outcome |-> "none", rows |-> <<>>]

\* fetch_traffic_data(bbox) at clock reading t: the frame returned, and
\* where its observations were produced
fetch_traffic_data(mock, feed, cols, box, t) ==
    LET synthetic == [result |-> _generate_mock_data(box, t),
                      origin |-> "synthetic"]
        gdf == validate_traffic_data(feed.rows, cols)
    IN IF mock THEN synthetic
       ELSE IF feed.outcome # "ok" THEN synthetic
       ELSE IF feed.rows = <<>> THEN synthetic
       ELSE IF gdf.raised # "" THEN synthetic
       ELSE [result |-> gdf.rows, origin |-> "live"]

\* the caller validates the frame it holds
ValidateTrafficData ==
    /\ ~validated.called
    /\ validated' = validate_traffic_data(raw_gdf, columns)
    /\ UNCHANGED <<appVars, loaderVars, spatialVars, analyzerVars, use_mock, now, live, bbox, raw_gdf,
                   fetched, origin, status_info, history, pc>>

\* a caller generates synthetic observations
GenerateMockData ==
    /\ Len(history) < MaxRuns
    /\ fetched' = Returned(_generate_mock_data(bbox, now))
    /\ origin' = "synthetic"
    /\ history' = Append(history, [at |-> now, fetched |-> fetched'.rows,
                                    stats |-> NoStatistics, levels |-> <<>>])
    /\ UNCHANGED <<appVars, loaderVars, spatialVars, analyzerVars, use_mock, now, live, bbox, raw_gdf,
                   validated, status_info, pc>>

\* the caller fetches the observations (app.py line 319, simple_map_app.py
\* line 45) and holds them as traffic_gdf; the frame is all it receives
FetchTrafficData ==
    /\ pc = "idle"
    /\ ~fetched.called
    /\ LET r == fetch_traffic_data(use_mock, live, columns, bbox, now)
       IN /\ fetched' = Returned(r.result)
          /\ origin' = r.origin
          /\ traffic_gdf' = r.result
          /\ columns' = IF r.origin = "synthetic" THEN NumericColumns ELSE columns
    /\ traffic_crs' = "EPSG:4326"
    /\ pc' = "fetched"
    /\ UNCHANGED <<appVars, loaderVars, max_distance, _road_gdf, road_gdf, other_road_gdf, joined,
                   linked, aggregated, coverage, analyzerVars, use_mock, now,
                   live, bbox, raw_gdf, validated, status_info, history>>

\* time passes
Tick ==
    /\ \E t \in Instants : t > now /\ now' = t
    /\ UNCHANGED <<appVars, loaderVars, spatialVars, analyzerVars, use_mock, live, bbox, raw_gdf,
                   validated, fetched, origin, status_info, history, pc>>

----------------------------------------------------------------------------
(* pydeck_map_app.py: load_and_process_data *)

\* the methods of road_data.RoadDataLoader
RoadDataLoader_methods ==
    {"load_road_network", "_load_from_zip", "_filter_by_bbox",
     "_standardize_road_schema", "get_road_statistics"}

NoStatus == [status |-> "", data_source |-> ""]

\* load_and_process_data: loader.load_road_data(...) at line 46 is an
\* AttributeError, which the except clause at line 118 turns into an error
\* status; lines 56-66 fetch with use_mock=False and label the frame by
\* whether it is empty
load_and_process_data(feed, cols, box, t) ==
    LET first_try == fetch_traffic_data(FALSE, feed, cols, box, t)
        traffic == IF first_try.result = <<>>
                   THEN fetch_traffic_data(TRUE, feed, cols, box, t)
                   ELSE first_try
    IN IF "load_road_data" \notin RoadDataLoader_methods
       THEN [status_info |-> [status |-> "error", data_source |-> ""],
             traffic_gdf |-> <<>>, origin |-> ""]
       ELSE [status_info |-> [status |-> "success",
                              data_source |-> IF first_try.result = <<>>
                                              THEN "mock" ELSE "real"],
             traffic_gdf |-> traffic.result, origin |-> traffic.origin]

\* the pydeck application loads its data
LoadAndProcessData ==
    /\ pc = "idle"
    /\ ~fetched.called
    /\ status_info = NoStatus
    /\ LET r == load_and_process_data(live, columns, bbox, now)
       IN /\ status_info' = r.status_info
          /\ fetched' = IF r.origin = "" THEN fetched ELSE Returned(r.traffic_gdf)
          /\ origin' = r.origin
    /\ UNCHANGED <<appVars, loaderVars, spatialVars, analyzerVars, use_mock, now, live, bbox, raw_gdf,
                   validated, history, pc>>

\* the application runs the same calls once more, on new objects
RunAgain ==
    /\ pc = "summarized"
    /\ Len(history) < MaxRuns
    /\ _road_gdf' = None
    /\ traffic_gdf' = <<>>
    /\ columns' = NumericColumns
    /\ joined' = NotCalled
    /\ aggregated' = NotCalled
    /\ congestion_data' = NotCalled
    /\ stats' = NoStatistics
    /\ fetched' = NotCalled
    /\ origin' = ""
    /\ pc' = "idle"
    /\ UNCHANGED <<appVars, loaderVars, max_distance, traffic_crs, road_gdf,
                   other_road_gdf, linked, coverage, thresholds,
                   speed_thresholds, rerun, use_mock, now, live, bbox, raw_gdf,
                   validated, status_info, history>>

----------------------------------------------------------------------------
(* app.py: main, setup_sidebar and create_traffic_map *)

UPDATE_INTERVAL == 5     \* minutes (300 seconds)

\* values of the medium_speed slider (lines 100-105: 10 to 30)
MediumSpeeds == {10, 20, 30}

NoEntry == [stored |-> FALSE, at |-> 0, rows |-> <<>>, stats |-> NoStatistics]

\* st.cache_data(ttl=UPDATE_INTERVAL) on a function without arguments: one
\* entry, returned as long as it is younger than the ttl
cache_hit(entry, t) == entry.stored /\ t - entry.at < UPDATE_INTERVAL

\* lines 309-350 of create_traffic_map, from the aggregated frame on: the
\* analyzer is built with the thresholds of the session state
create_traffic_map(session, gdf, cols, t) ==
    LET congestion_analyzer == CongestionAnalyzer(session)
        rows == calculate_congestion_level(gdf, cols, congestion_analyzer)
        levels == IF gdf = <<>> THEN cols
                  ELSE cols \cup {"congestion_level", "congestion_color",
                                  "speed_category"}
    IN [rows |-> rows, stats |-> generate_statistics(rows, levels, t)]

\* one run of the script (main, lines 54-56): setup_sidebar stores the
\* slider values in the session state, the two buttons clear the cache
\* before the run (lines 70-77), and display_main_content calls
\* create_traffic_map through st.cache_data
Main ==
    /\ pc \in {"app", "shown"}
    /\ \E h \in HighSpeeds, m \in MediumSpeeds, clear \in BOOLEAN :
          LET entry == IF clear THEN NoEntry ELSE cache_data
              made == create_traffic_map(Thresholds(h, m), aggregated.rows,
                                         columns, now)
          IN /\ thresholds' = Thresholds(h, m)
             /\ IF cache_hit(entry, now)
                THEN /\ congestion_data' = Returned(entry.rows)
                     /\ stats' = entry.stats
                     /\ cache_data' = entry
                     /\ UNCHANGED speed_thresholds
                ELSE /\ congestion_data' = Returned(made.rows)
                     /\ stats' = made.stats
                     /\ cache_data' = [stored |-> TRUE, at |-> now,
                                       rows |-> made.rows, stats |-> made.stats]
                     /\ speed_thresholds' = CongestionAnalyzer(thresholds')
    /\ pc' = "shown"
    /\ UNCHANGED <<loaderVars, spatialVars, rerun, feedVars>>

----------------------------------------------------------------------------
(* road_data.py: RoadDataLoader *)

MaxLoads == 2        \* load_road_network calls on one loader

\* A text is a sequence of characters.
Digits == <<"0", "1", "2", "3", "4", "5", "6", "7", "8", "9">>

\* str(n) of a non-negative integer
RECURSIVE str(_)
str(n) ==
    IF n < 10 THEN <<Digits[n + 1]>>
    ELSE str(n \div 10) \o <<Digits[(n % 10) + 1]>>

\* Series.astype(str) of an object cell: the text itself, and the text
\* 'None' for a missing value
astype_str(cell) ==
    IF cell = Null THEN <<"N", "o", "n", "e">> ELSE cell[1]

\* str.zfill(width): zeros on the left up to the width
RECURSIVE zfill(_, _)
zfill(text, width) ==
    IF Len(text) >= width THEN text ELSE zfill(<<"0">> \o text, width)

\* does a street meet the box (minx, miny, maxx, maxy)
intersects(g, box) ==
    CASE g.axis = "h" -> box[2] <= g.c /\ g.c <= box[4]
      [] g.axis = "v" -> box[1] <= g.c /\ g.c <= box[3]
      [] OTHER -> FALSE

\* lines 93-111: gdf.cx[minx:maxx, miny:maxy]
_filter_by_bbox(gdf, box) ==
    SelectSeq(gdf, LAMBDA r : intersects(r.geometry, box))

\* lines 57-91: the shapefile of the archive as a frame, rows labelled 0, 1, ...
\* (the CRS of the file is EPSG:4326 or is taken to be)
_load_from_zip(arch) ==
    IF ~arch.exists THEN Raised("FileNotFoundError")
    ELSE Returned([n \in 1..Len(arch.rows) |->
             [index |-> n - 1, N01_002 |-> arch.rows[n].N01_002,
              N01_003 |-> arch.rows[n].N01_003,
              geometry |-> arch.rows[n].geometry]])

NoRoads == [columns |-> {}, rows |-> <<>>]

\* lines 113-165: _standardize_road_schema of a frame with the columns cols:
\* the frame returned, and the rows of the argument after the call.  When a
\* column is renamed (line 129) the rest works on a new frame; otherwise
\* lines 137 and 145 assign the columns road_id and road_name to the
\* argument itself.
_standardize_road_schema(gdf, cols) ==
    IF gdf = <<>> THEN [columns |-> cols, rows |-> <<>>, written |-> gdf]
    ELSE LET road_id(r) ==
                 IF "N01_002" \in cols
                 THEN Some(zfill(astype_str(r.N01_002), 3))
                 ELSE Some(zfill(str(r.index), 6))
             road_name(r) ==
                 IF "N01_003" \in cols
                 THEN (IF r.N01_003 = Null THEN Some("unclassified road")
                       ELSE r.N01_003)
                 ELSE Some("road")
             result == [n \in 1..Len(gdf) |->
                 [index |-> gdf[n].index, road_id |-> road_id(gdf[n]),
                  road_name |-> road_name(gdf[n]),
                  geometry |-> gdf[n].geometry]]
             renamed == cols \cap {"N01_001", "N01_002", "N01_003", "N01_004"} # {}
             written == IF renamed THEN gdf
                        ELSE [n \in 1..Len(gdf) |->
                                 [index |-> gdf[n].index,
                                  N01_002 |-> gdf[n].N01_002,
                                  N01_003 |-> gdf[n].N01_003,
                                  geometry |-> gdf[n].geometry,
                                  road_id |-> road_id(gdf[n]),
                                  road_name |-> road_name(gdf[n])]]
         IN IF "geometry" \notin cols
            THEN [columns |-> {}, rows |-> <<>>, written |-> written]
            ELSE [columns |-> {"road_id", "road_name", "geometry"},
                  rows |-> SelectSeq(result,
                               LAMBDA r : r.geometry # NoGeometry),
                  written |-> written]

\* a second name for the same frame: what is assigned through one is seen
\* through the other
share(frame) == [shared |-> TRUE, rows |-> frame]

\* DataFrame.copy(): a new frame with the same rows
copy(frame) == [shared |-> FALSE, rows |-> frame]

\* RoadDataLoader._cached_roads: None, or a frame with its columns
NoCache == [is_none |-> TRUE, columns |-> {}, rows |-> <<>>]
Cache(cols, rows) == [is_none |-> FALSE, columns |-> cols, rows |-> rows]

\* a loader that finds no cache
never_cached(cache) == FALSE

\* line 33: self._cached_roads is not None
is_cached(cache) == ~cache.is_none

\* load_road_network(zip_path, bbox) on a loader whose _cached_roads is
\* cache, arch being the file at zip_path; box = <<>> stands for bbox=None.
\* The value returned, the cache afterwards, and whether _load_from_zip was
\* called.  The bbox filter gives a new frame; without it
\* _standardize_road_schema is handed roads itself.
load_road_network(cache, arch, box) ==
    LET hit == is_cached(cache)
        read == _load_from_zip(arch)
        roads == IF hit THEN copy(cache.rows).rows ELSE read.rows
        kept == IF hit THEN copy(cache.rows) ELSE copy(roads)
        filtered == IF box # <<>> THEN _filter_by_bbox(roads, box) ELSE roads
        cols == IF hit THEN cache.columns ELSE arch.columns
        standard == _standardize_road_schema(filtered, cols)
        cached == IF kept.shared /\ box = <<>> THEN standard.written
                  ELSE kept.rows
    IN IF ~hit /\ read.raised # ""
       THEN [result |-> NoRoads, cache |-> cache, read |-> TRUE]
       ELSE [result |-> [columns |-> standard.columns, rows |-> standard.rows],
             cache |-> Cache(cols, cached),
             read |-> ~hit]

NoLoad == [called |-> FALSE, zip_path |-> "", columns |-> {}, rows |-> <<>>]

\* the paths a caller names: the archive of the roads, and a path where
\* there is no file
ZipPaths == {"roads.zip", "missing.zip"}

NoFile == [exists |-> FALSE, columns |-> {}, rows |-> <<>>]

file_at(zip_path, arch) == IF zip_path = "roads.zip" THEN arch ELSE NoFile

\* a caller loads the roads of some area, or of the whole archive
LoadRoadNetwork ==
    /\ road_loads < MaxLoads
    /\ \E zip_path \in ZipPaths, box \in {<<>>} \cup AreaBoxes :
          LET r == load_road_network(_cached_roads, file_at(zip_path, archive),
                                     box)
          IN /\ loaded' = [called |-> TRUE, zip_path |-> zip_path,
                           columns |-> r.result.columns,
                           rows |-> r.result.rows]
             /\ _cached_roads' = r.cache
             /\ archive_reads' = archive_reads + (IF r.read THEN 1 ELSE 0)
    /\ road_loads' = road_loads + 1
    /\ UNCHANGED <<appVars, spatialVars, analyzerVars, feedVars, archive, pc>>

----------------------------------------------------------------------------
(* Specification of the matcher: one observation frame, one road frame *)

Observation(l, v) ==
    [loc |-> l, speed |-> v, travel_time |-> Num(12), link_length |-> Num(100)]

Road(id, name, g) == [road_id |-> Some(id), road_name |-> name, geometry |-> g]

\* road frames whose n-th road has the n-th id
RoadFrames(n) ==
    UNION {[1..k -> Geometries] : k \in 0..n}

WithIds(geoms) ==
    [j \in 1..Len(geoms) |-> Road(RoadIdOrder[j], Some("road"), geoms[j])]

JoinTrafficFrames == SeqsUpTo({Observation(l, Num(30)) : l \in Locations}, MaxObs)
JoinRoadFrames == {WithIds(g) : g \in RoadFrames(MaxRoads)}

\* SpatialProcessor(max_distance=...): 50 by default, 100 and 200 in the apps
MaxDistances == {50, 100, 200}

IdleAnalyzer ==
    /\ thresholds = NoThresholds
    /\ speed_thresholds = CongestionAnalyzer(thresholds)
    /\ congestion_data = NotCalled
    /\ stats = NoStatistics
    /\ rerun = NoRerun

IdleLoader ==
    /\ _cached_roads = NoCache
    /\ archive = NoFile
    /\ loaded = NoLoad
    /\ road_loads = 0
    /\ archive_reads = 0

IdleApp == cache_data = NoEntry

IdleFeed ==
    /\ use_mock = TRUE
    /\ now = 0
    /\ live = NoFeed
    /\ bbox = <<0, 0, 2, 1>>
    /\ raw_gdf = <<>>
    /\ validated = NotCalled
    /\ fetched = NotCalled
    /\ origin = ""
    /\ status_info = NoStatus
    /\ history = <<>>

InitJoin ==
    /\ IdleLoader
    /\ IdleApp
    /\ max_distance \in MaxDistances
    /\ _road_gdf = None
    /\ traffic_gdf \in JoinTrafficFrames
    /\ traffic_crs \in {"EPSG:4326", "naive"}
    /\ columns = NumericColumns
    /\ road_gdf \in JoinRoadFrames
    /\ other_road_gdf = <<>>
    /\ joined = NotCalled
    /\ linked = NotCalled
    /\ aggregated = NotCalled
    /\ coverage = NoDict
    /\ IdleAnalyzer
    /\ IdleFeed
    /\ pc = "start"

NextJoin == JoinTrafficRoads \/ AttachNearestRoad

SpecJoin == InitJoin /\ [][NextJoin]_vars

\* C1: every record that join_traffic_roads returns with a road_id has
\* distance_to_road <= max_distance, and a record has neither road_id nor
\* distance_to_road exactly when no road of the frame lies within
\* max_distance of its observation in the projected (metric) frame.
C1_MatchWithinCutoff ==
    pc = "joined" =>
        \A n \in 1..Len(joined.rows) :
            LET r == joined.rows[n]
                p == to_crs_3857(traffic_gdf[r.index].loc)
                within == \E j \in 1..Len(road_gdf) :
                    distance(p, to_crs_3857_line(road_gdf[j].geometry))
                        <= max_distance
            IN /\ r.road_id # Null =>
                    /\ notna(r.distance_to_road)
                    /\ Le(r.distance_to_road, Num(max_distance))
               /\ (r.road_id = Null /\ isna(r.distance_to_road)) <=> ~within

\* a join that returned one record at exactly max_distance and one record
\* without a road
C1_Witness ==
    /\ pc = "joined"
    /\ \E n \in 1..Len(joined.rows) :
          /\ joined.rows[n].road_id # Null
          /\ joined.rows[n].distance_to_road = Num(max_distance)
    /\ \E n \in 1..Len(joined.rows) :
          /\ joined.rows[n].road_id = Null
          /\ isna(joined.rows[n].distance_to_road)

\* C2: for non-empty input the matcher returns exactly one record per
\* observation, also when roads are equidistant: join_traffic_roads returns
\* one row for each observation, and attach_nearest_road returns the
\* observations with a road_id each.
C2_OneRecordPerObservation ==
    /\ (pc = "joined" /\ traffic_gdf # <<>> /\ road_gdf # <<>>
            /\ traffic_crs = "EPSG:4326") =>
          \A i \in 1..Len(traffic_gdf) :
              Cardinality({n \in 1..Len(joined.rows) : joined.rows[n].index = i}) = 1
    /\ (linked.called /\ traffic_gdf # <<>> /\ road_gdf # <<>>
            /\ traffic_crs = "EPSG:4326") =>
          /\ linked.raised = ""
          /\ Len(linked.rows) = Len(traffic_gdf)

----------------------------------------------------------------------------
(* Specification of the aggregator: any joined frame, as a left join gives it *)

MaxJoined == 3       \* rows of a joined frame

Speeds == {NaN, Num(10), Num(40), NonNumeric}

\* a row of a joined frame: without a road (no road_id, no name, no distance)
\* or with one
JoinedRows ==
    {joined_row(0, Observation(<<0, 0>>, v), Null, Null, NaN) : v \in Speeds}
    \cup {joined_row(0, Observation(<<0, 0>>, v), Some(id), name, Num(0)) :
            v \in Speeds, id \in {"001", "002"},
            name \in {Null, Some("A"), Some("B")}}

Indexed(rows) == [n \in 1..Len(rows) |-> [rows[n] EXCEPT !.index = n]]

AggJoinedFrames == {Indexed(rows) : rows \in SeqsUpTo(JoinedRows, MaxJoined)}

AggRoads == WithIds(<<[axis |-> "h", c |-> 0], [axis |-> "v", c |-> 1]>>)

InitAgg ==
    /\ IdleLoader
    /\ IdleApp
    /\ max_distance = 50
    /\ _road_gdf \in {None, Frame(AggRoads), Frame(<<AggRoads[1]>>)}
    /\ traffic_gdf = <<>>
    /\ traffic_crs = "EPSG:4326"
    /\ columns \in {{}, {"speed"}, NumericColumns}
    /\ road_gdf = AggRoads
    /\ other_road_gdf = <<>>
    /\ joined \in {Returned(j) : j \in AggJoinedFrames}
    /\ linked = NotCalled
    /\ aggregated = NotCalled
    /\ coverage = NoDict
    /\ IdleAnalyzer
    /\ IdleFeed
    /\ pc = "joined"

NextAgg == AggregateByRoad

SpecAgg == InitAgg /\ [][NextAgg]_vars

MatchedIds == {joined.rows[n].road_id : n \in {m \in 1..Len(joined.rows) :
                                                joined.rows[m].road_id # Null}}
RecordsOf(id) == {n \in 1..Len(joined.rows) : joined.rows[n].road_id = id}

RowCounts ==
    /\ Len(aggregated.rows) <= Cardinality(MatchedIds)
    /\ \A g \in 1..Len(aggregated.rows) :
          aggregated.rows[g].observation_count
              = Num(Cardinality(RecordsOf(aggregated.rows[g].road_id)))
    /\ QSum([g \in 1..Len(aggregated.rows) |->
                  aggregated.rows[g].observation_count])
          = Num(Cardinality({n \in 1..Len(joined.rows) :
                                joined.rows[n].road_id # Null}))

NumericCells ==
    \A col \in columns \cap NumericColumns : \A n \in 1..Len(joined.rows) :
        joined.rows[n].road_id # Null => aggregable(Column(joined.rows, col)[n])

C11_NoRowWithoutGeometry ==
    (pc = "aggregated" /\ columns \cap NumericColumns # {} /\ NumericCells) =>
        /\ aggregated.raised = ""
        /\ \A g \in 1..Len(aggregated.rows) :
              aggregated.rows[g].geometry # NoGeometry
        /\ \A id \in MatchedIds :
              (~_road_gdf.is_none
                  /\ \E j \in 1..Len(_road_gdf.rows) : _road_gdf.rows[j].road_id = id)
              => \E g \in 1..Len(aggregated.rows) : aggregated.rows[g].road_id = id

\* the non-null values of a field among the records of a road
ValuesOf(id, col) ==
    SelectSeq(Column(Take(joined.rows, RecordsOf(id)), col), notna)

\* C20: each numeric field of an aggregated row (speed, travel time, link
\* length, distance to road) is the arithmetic mean of the non-null values
\* the records of its road have in that field, and is null, not zero, when
\* all of them are null.
C20_MeanOfNonNull ==
    pc = "aggregated" =>
        \A g \in 1..Len(aggregated.rows) :
            \A col \in (columns \cap NumericColumns) \cup {"distance_to_road"} :
                LET v == Column(aggregated.rows, col)[g]
                    xs == ValuesOf(aggregated.rows[g].road_id, col)
                IN IF xs = <<>> THEN isna(v)
                   ELSE /\ IsNum(v)
                        /\ v.num * QSum(xs).den * Len(xs) = QSum(xs).num * v.den

\* an aggregation that gave one road the mean 25 of the speeds 10 and 40 and
\* another road, whose only record has no speed, a null speed
C20_Witness ==
    /\ pc = "aggregated"
    /\ \E g \in 1..Len(aggregated.rows) :
          /\ aggregated.rows[g].speed = Num(25)
          /\ aggregated.rows[g].observation_count = Num(2)
    /\ \E g \in 1..Len(aggregated.rows) :
          /\ isna(aggregated.rows[g].speed)
          /\ aggregated.rows[g].observation_count = Num(1)

\* the records of a road that have a name, by position in the joined frame
NamedRecordsOf(id) == {n \in RecordsOf(id) : joined.rows[n].road_name # Null}

\* C26: the road_name of an aggregated row is the first non-null road_name
\* among the records of its road, in the order of the joined frame (and
\* null when none of them has one).
C26_FirstNonNullName ==
    pc = "aggregated" =>
        \A g \in 1..Len(aggregated.rows) :
            LET named == NamedRecordsOf(aggregated.rows[g].road_id)
            IN IF named = {} THEN aggregated.rows[g].road_name = Null
               ELSE \E n \in named :
                      /\ \A k \in named : n <= k
                      /\ aggregated.rows[g].road_name = joined.rows[n].road_name

\* a road whose first record has no name and whose later records are named
\* B and then A: the aggregated row is named B
C26_Witness ==
    /\ pc = "aggregated"
    /\ Len(joined.rows) = 3
    /\ joined.rows[1].road_name = Null
    /\ joined.rows[2].road_name = Some("B")
    /\ joined.rows[3].road_name = Some("A")
    /\ Len(aggregated.rows) = 1
    /\ aggregated.rows[1].road_name = Some("B")

----------------------------------------------------------------------------
(* Specification of one processor used for several calls *)

GeomTrafficFrames == SeqsUpTo({Observation(l, Num(30)) : l \in Locations}, 1)
GeomOtherFrames == {WithIds(g) : g \in RoadFrames(MaxRoads)}

InitGeom ==
    /\ IdleLoader
    /\ IdleApp
    /\ max_distance \in MaxDistances
    /\ _road_gdf = None
    /\ traffic_gdf \in GeomTrafficFrames
    /\ traffic_crs = "EPSG:4326"
    /\ columns = NumericColumns
    /\ road_gdf \in JoinRoadFrames
    /\ other_road_gdf \in GeomOtherFrames
    /\ joined = NotCalled
    /\ linked = NotCalled
    /\ aggregated = NotCalled
    /\ coverage = NoDict
    /\ IdleAnalyzer
    /\ IdleFeed
    /\ pc = "start"

NextGeom ==
    \/ JoinTrafficRoads
    \/ JoinOtherRoads
    \/ CalculateRoadCoverage
    \/ AggregateByRoad

SpecGeom == InitGeom /\ [][NextGeom]_vars

\* C6: every row that aggregate_by_road(joined, road_gdf) returns carries the
\* geometry its road_id has in road_gdf, whatever other joins and coverage
\* analyses the processor served before.
C6_GeometryOfSuppliedRoads ==
    pc = "aggregated" =>
        \A g \in 1..Len(aggregated.rows) :
            \E j \in 1..Len(road_gdf) :
                /\ road_gdf[j].road_id = aggregated.rows[g].road_id
                /\ road_gdf[j].geometry = aggregated.rows[g].geometry

\* C15: join_traffic_roads has no side effect: a call changes neither the
\* frames passed to it nor any state of the processor that a later call
\* reads.
C15_JoinLeavesProcessorAlone ==
    [][(JoinTrafficRoads \/ JoinOtherRoads) =>
          /\ traffic_gdf' = traffic_gdf
          /\ road_gdf' = road_gdf
          /\ other_road_gdf' = other_road_gdf
          /\ max_distance' = max_distance
          /\ _road_gdf' = _road_gdf]_vars

\* C22: join_traffic_roads with an empty observation frame or an empty road
\* frame returns an empty frame, raises nothing and leaves the state of the
\* processor as it was.
C22_EmptyInputJoin ==
    [][(JoinTrafficRoads /\ (traffic_gdf = <<>> \/ road_gdf = <<>>)) =>
          /\ joined'.raised = ""
          /\ joined'.rows = <<>>
          /\ _road_gdf' = _road_gdf
          /\ max_distance' = max_distance]_vars

\* a join against an empty road frame, on a processor that holds the roads
\* of an earlier join
C22_Witness ==
    /\ pc = "joined"
    /\ joined.called
    /\ traffic_gdf # <<>>
    /\ road_gdf = <<>>
    /\ joined.rows = <<>>
    /\ ~_road_gdf.is_none

\* C30: for every non-empty observation frame and road frame,
\* calculate_road_coverage returns 0 <= coverage_rate <= 1,
\* matched_roads <= total_roads and matched_points <= traffic_points.
C30_CoverageWithinBounds ==
    (coverage.keys # {} /\ traffic_gdf # <<>> /\ other_road_gdf # <<>>) =>
        /\ {"coverage_rate", "matched_roads", "total_roads",
            "traffic_points", "matched_points"} \subseteq coverage.keys
        /\ Le(Num(0), coverage.coverage_rate)
        /\ Le(coverage.coverage_rate, Num(1))
        /\ coverage.matched_roads <= coverage.total_roads
        /\ coverage.matched_points <= coverage.traffic_points

----------------------------------------------------------------------------
(* Specification of the classifier: any aggregated frame, any thresholds *)

MaxSegments == 2     \* rows of an aggregated frame

IdleSpatial ==
    /\ max_distance = 50
    /\ _road_gdf = None
    /\ traffic_gdf = <<>>
    /\ traffic_crs = "EPSG:4326"
    /\ road_gdf = <<>>
    /\ other_road_gdf = <<>>
    /\ joined = NotCalled
    /\ linked = NotCalled
    /\ coverage = NoDict

Segment(speed, count) ==
    [road_id |-> Some("001"), speed |-> speed, travel_time |-> Num(12),
     link_length |-> Num(100), road_name |-> Null, distance_to_road |-> Num(0),
     observation_count |-> Num(count), geometry |-> NoGeometry]

WithRoadIds(rows) ==
    [n \in 1..Len(rows) |-> [rows[n] EXCEPT !.road_id = Some(RoadIdOrder[n])]]

ClassifySpeeds ==
    {NaN, NonNumeric, NumericString(32), Num(10), Num(20), Frac(59, 2),
     Num(30), Num(32)}

ClassifyFrames ==
    {WithRoadIds(rows) :
        rows \in SeqsUpTo({Segment(v, 1) : v \in ClassifySpeeds}, MaxSegments)}

\* the sliders of app.py give high_speed in 20..50 and medium_speed in 10..30
ThresholdArgs ==
    {NoThresholds} \cup {Thresholds(h, m) : h \in {20, 30, 40}, m \in {10, 20, 30}}

InitClassify ==
    /\ IdleLoader
    /\ IdleApp
    /\ IdleSpatial
    /\ IdleFeed
    /\ columns \in {NumericColumns \cup {"observation_count"},
                    {"travel_time", "observation_count"}}
    /\ aggregated \in {Returned(f) : f \in ClassifyFrames}
    /\ thresholds \in ThresholdArgs
    /\ speed_thresholds = CongestionAnalyzer(thresholds)
    /\ congestion_data = NotCalled
    /\ stats = NoStatistics
    /\ rerun = NoRerun
    /\ pc = "aggregated"

NextClassify ==
    \/ CalculateCongestionLevel
    \/ CalculateCongestionLevelAgain
    \/ GenerateStatistics

SpecClassify == InitClassify /\ [][NextClassify]_vars

\* C4: calculate_congestion_level gives every segment the level of the
\* ordered rule: unknown when the speed is absent, null or not a number,
\* else low when speed >= high_speed, else medium when speed >= medium_speed,
\* else high; unknown is given in no other case; and an analyzer built
\* without thresholds uses high_speed 30 and medium_speed 20, under which a
\* mean speed of 32 is low.
C4_OrderedRule ==
    pc \in {"classified", "summarized"} =>
        /\ Len(congestion_data.rows) = Len(aggregated.rows)
        /\ thresholds.is_none =>
              /\ speed_thresholds.high_speed = 30
              /\ speed_thresholds.medium_speed = 20
        /\ \A n \in 1..Len(aggregated.rows) :
              LET v == aggregated.rows[n].speed
                  level == congestion_data.rows[n].congestion_level
                  numeric == "speed" \in columns /\ v.k \in {"num", "numstr"}
              IN /\ level = "unknown" <=> ~numeric
                 /\ numeric =>
                      level = IF v.num >= speed_thresholds.high_speed * v.den
                              THEN "low"
                              ELSE IF v.num >= speed_thresholds.medium_speed * v.den
                              THEN "medium"
                              ELSE "high"
                 /\ (numeric /\ thresholds.is_none /\ v = Num(32)) => level = "low"

\* an analyzer built without thresholds classified a segment of mean speed
\* 32 as low and a segment whose speed is not a number as unknown
C4_Witness ==
    /\ pc = "classified"
    /\ thresholds.is_none
    /\ \E n \in 1..Len(aggregated.rows) :
          /\ aggregated.rows[n].speed = Num(32)
          /\ congestion_data.rows[n].congestion_level = "low"
    /\ \E n \in 1..Len(aggregated.rows) :
          /\ aggregated.rows[n].speed = NonNumeric
          /\ congestion_data.rows[n].congestion_level = "unknown"

Congested(rows) ==
    Cardinality({n \in 1..Len(rows) :
        rows[n].congestion_level \in {"medium", "high"}})

\* C19: for the same data and the same medium_speed, classifying with a
\* high_speed that is no smaller leaves no fewer segments medium or high.
C19_RaisingHighSpeed ==
    (rerun.called /\ rerun.high_speed >= speed_thresholds.high_speed) =>
        Congested(rerun.rows) >= Congested(congestion_data.rows)

\* high_speed raised from 30 to 40 turned a segment (speed 32) from low to
\* medium
C19_Witness ==
    /\ rerun.called
    /\ speed_thresholds.high_speed = 30
    /\ rerun.high_speed = 40
    /\ Congested(rerun.rows) > Congested(congestion_data.rows)

\* C25: the thresholds an analyzer is built with are ordered, medium_speed
\* <= high_speed, for every pair of slider values, and each of low, medium
\* and high is the level of some speed.
C25_ThresholdsOrdered ==
    /\ speed_thresholds.medium_speed <= speed_thresholds.high_speed
    /\ \A level \in {"low", "medium", "high"} :
          \E v \in 0..60 : congestion_level(Num(v), speed_thresholds) = level

\* the speeds of the summarised frame that are numbers
NumericSpeeds ==
    IF "speed" \in columns
    THEN SelectSeq([n \in 1..Len(congestion_data.rows) |->
                       to_numeric(congestion_data.rows[n].speed)], notna)
    ELSE <<>>

\* C17: the speed_stats of generate_statistics count the speeds that are
\* non-null numbers, and when there is none the result holds speed_stats
\* with count 0 and no other field.
C17_SpeedStatsOverNumericSpeeds ==
    pc = "summarized" =>
        /\ "speed_stats" \in stats.keys
        /\ IF NumericSpeeds = <<>>
           THEN stats.speed_stats.keys = {"count"} /\ stats.speed_stats.count = 0
           ELSE /\ "count" \in stats.speed_stats.keys
                /\ stats.speed_stats.count = Len(NumericSpeeds)
                /\ stats.speed_stats.mean = mean(NumericSpeeds)

----------------------------------------------------------------------------
(* Specification of the summary: classified frames by their level counts *)

MaxPerLevel == 7     \* segments of one congestion level in a frame

\* a classified segment of the given level; the segments differ in their
\* observation counts too: 2, 1, 0 and a missing count
Classified(level) ==
    LET v == CASE level = "low" -> Num(40)
               [] level = "medium" -> Num(25)
               [] level = "high" -> Num(10)
               [] OTHER -> NaN
        k == CASE level = "low" -> Num(2)
               [] level = "medium" -> Num(1)
               [] level = "high" -> Num(0)
               [] OTHER -> NaN
    IN [road_id |-> Some("001"), speed |-> v, travel_time |-> Num(12),
        observation_count |-> k, congestion_level |-> level,
        congestion_color |-> CONGESTION_COLORS[level],
        speed_category |-> congestion_labels[level]]

Repeat(x, k) == [n \in 1..k |-> x]

StatsFrames ==
    {Repeat(Classified("low"), a) \o Repeat(Classified("medium"), b)
        \o Repeat(Classified("high"), c) \o Repeat(Classified("unknown"), d) :
        a \in 0..MaxPerLevel, b \in 0..MaxPerLevel,
        c \in 0..MaxPerLevel, d \in 0..MaxPerLevel}

InitStats ==
    /\ IdleLoader
    /\ IdleApp
    /\ IdleSpatial
    /\ IdleFeed
    /\ columns \in {NumericColumns \cup {"observation_count", "congestion_level"},
                    NumericColumns \cup {"observation_count"}}
    /\ aggregated = NotCalled
    /\ thresholds = NoThresholds
    /\ speed_thresholds = CongestionAnalyzer(thresholds)
    /\ congestion_data \in {Returned(f) : f \in StatsFrames}
    /\ stats = NoStatistics
    /\ rerun = NoRerun
    /\ pc = "classified"

NextStats == GenerateStatistics

SpecStats == InitStats /\ [][NextStats]_vars

RECURSIVE SumValues(_)
SumValues(f) ==
    IF DOMAIN f = {} THEN 0
    ELSE LET l == CHOOSE k \in DOMAIN f : TRUE
         IN f[l] + SumValues([k \in DOMAIN f \ {l} |-> f[k]])

\* sum of the percentages, in tenths of a percent
PercentageSum == SumValues(stats.congestion_percentage)

\* C7 as claimed: the percentages of generate_statistics sum to a value
\* within 0.1 of 100 for every input with at least one segment, and to 0
\* for an empty input.
C7_SumWithinOneTenth ==
    pc = "summarized" =>
        IF congestion_data.rows = <<>> THEN PercentageSum = 0
        ELSE Abs(PercentageSum - 1000) <= 1

\* C7 as amended: for an input with at least one segment and a
\* congestion_level column of the four levels the percentages sum to a value
\* within 0.2 of 100; for an empty input, and for an input without that
\* column, they sum to 0.
C7_SumWithinTwoTenths ==
    pc = "summarized" =>
        IF congestion_data.rows = <<>> \/ "congestion_level" \notin columns
        THEN PercentageSum = 0
        ELSE Abs(PercentageSum - 1000) <= 2

\* a summary of sixteen segments whose four percentages are all ties
\* (18.75, 18.75, 18.75, 43.75) and sum to 100.2
C7_Witness ==
    /\ pc = "summarized"
    /\ stats.total_roads = 16
    /\ Cardinality(DOMAIN stats.congestion_percentage) = 4
    /\ PercentageSum = 1002

\* C16: generate_statistics of an empty input returns total_roads 0,
\* percentages that are empty or all zero and speed_stats equal to
\* {count: 0}; for every input the result holds total_roads, the number of
\* rows of the input.
C16_EmptyInputStatistics ==
    pc = "summarized" =>
        /\ "total_roads" \in stats.keys
        /\ stats.total_roads = Len(congestion_data.rows)
        /\ congestion_data.rows = <<>> =>
              /\ stats.total_roads = 0
              /\ PercentageSum = 0
              /\ stats.speed_stats.keys = {"count"}
              /\ stats.speed_stats.count = 0

\* the observation counts of the summarised segments that are numbers
Counts ==
    SelectSeq([n \in 1..Len(congestion_data.rows) |->
                  to_numeric(congestion_data.rows[n].observation_count)], notna)

----------------------------------------------------------------------------
(* Specification of the feed: one request in mock mode or in live mode *)

RawRow(l, v, tt) ==
    [loc |-> l, time_code |-> 805, speed |-> v, travel_time |-> tt,
     link_length |-> Num(100)]

\* rows as a feed delivers them: valid, too fast, speed that is text, and
\* without location
FeedRows ==
    {RawRow(<<0, 0>>, Num(30), Num(12)), RawRow(<<1, 1>>, Num(200), Num(12)),
     RawRow(<<2, 0>>, NonNumeric, Num(12)), RawRow(<<>>, Num(30), Num(12))}

LiveFeeds ==
    {[outcome |-> o, rows |-> <<>>] : o \in {"timeout", "http_error", "bad_json"}}
    \cup {[outcome |-> "ok", rows |-> f] : f \in SeqsUpTo(FeedRows, MaxRaw)}

\* the whole area, a part of it, and a single point
Boxes == AreaBoxes

InitFeed ==
    /\ IdleLoader
    /\ IdleApp
    /\ IdleSpatial
    /\ columns = NumericColumns
    /\ aggregated = NotCalled
    /\ IdleAnalyzer
    /\ use_mock \in BOOLEAN
    /\ now \in Instants
    /\ live \in LiveFeeds
    /\ bbox \in Boxes
    /\ raw_gdf = <<>>
    /\ validated = NotCalled
    /\ fetched = NotCalled
    /\ origin = ""
    /\ status_info = NoStatus
    /\ history = <<>>
    /\ pc = "idle"

NextFeed == FetchTrafficData \/ LoadAndProcessData \/ Tick

SpecFeed == InitFeed /\ [][NextFeed]_vars

\* C29: fetch_traffic_data never returns None and never returns an empty
\* frame, in mock mode and in live mode: an empty, failed or fully invalid
\* live answer is replaced by the synthetic observations.
C29_NeverEmpty ==
    fetched.called =>
        /\ fetched.raised = ""
        /\ fetched.rows # <<>>
        /\ (origin = "synthetic" => Len(fetched.rows) = n_points)

\* C5: whenever the observations handed to the caller are synthetic, the
\* caller holds an indication that they are (a data source of "mock"), and
\* synthetic observations are handed out only when the live feed answered
\* without observations or could not be reached.
C5_SyntheticIsIndicated ==
    (fetched.called /\ origin = "synthetic") =>
        /\ status_info.data_source = "mock"
        /\ \/ live.outcome \in {"timeout", "http_error", "bad_json"}
           \/ live.outcome = "ok" /\ live.rows = <<>>

\* C12: with use_mock false no exception reaches the caller; a feed that
\* fails or answers without features gives the observations of
\* _generate_mock_data, and a feed that answers with features gives the
\* observations of the feed.
C12_FallbackOnlyWithoutFeatures ==
    (fetched.called /\ ~use_mock) =>
        /\ fetched.raised = ""
        /\ (live.outcome # "ok" \/ live.rows = <<>>) =>
              /\ origin = "synthetic"
              /\ \E t \in Instants : fetched.rows = _generate_mock_data(bbox, t)
        /\ (live.outcome = "ok" /\ live.rows # <<>>) =>
              /\ origin = "live"
              /\ \A n \in 1..Len(fetched.rows) :
                    \E k \in 1..Len(live.rows) :
                        /\ fetched.rows[n].loc = live.rows[k].loc
                        /\ fetched.rows[n].link_length = live.rows[k].link_length

----------------------------------------------------------------------------
(* Specification of the pipeline: fetch, join, aggregate, classify and      *)
(* summarise, twice on the same inputs                                      *)

PipelineRoads ==
    {WithIds(<<[axis |-> "h", c |-> 0]>>),
     WithIds(<<[axis |-> "h", c |-> 0], [axis |-> "v", c |-> 2]>>)}

PipelineFeeds ==
    {[outcome |-> "timeout", rows |-> <<>>],
     [outcome |-> "ok", rows |-> <<RawRow(<<0, 0>>, Num(30), Num(12)),
                                   RawRow(<<2, 1>>, Num(10), Num(36))>>]}

InitPipeline ==
    /\ IdleLoader
    /\ IdleApp
    /\ max_distance \in {100, 200}
    /\ _road_gdf = None
    /\ traffic_gdf = <<>>
    /\ traffic_crs = "EPSG:4326"
    /\ columns = NumericColumns
    /\ road_gdf \in PipelineRoads
    /\ other_road_gdf = <<>>
    /\ joined = NotCalled
    /\ linked = NotCalled
    /\ aggregated = NotCalled
    /\ coverage = NoDict
    /\ thresholds \in {NoThresholds, Thresholds(40, 30)}
    /\ speed_thresholds = CongestionAnalyzer(thresholds)
    /\ congestion_data = NotCalled
    /\ stats = NoStatistics
    /\ rerun = NoRerun
    /\ use_mock \in BOOLEAN
    /\ now \in Instants
    /\ live \in PipelineFeeds
    /\ bbox = <<0, 0, 2, 1>>
    /\ raw_gdf = <<>>
    /\ validated = NotCalled
    /\ fetched = NotCalled
    /\ origin = ""
    /\ status_info = NoStatus
    /\ history = <<>>
    /\ pc = "idle"

NextPipeline ==
    \/ FetchTrafficData
    \/ JoinTrafficRoads
    \/ AggregateByRoad
    \/ CalculateCongestionLevel
    \/ GenerateStatistics
    \/ RunAgain
    \/ Tick

SpecPipeline == InitPipeline /\ [][NextPipeline]_vars

\* C8: two runs of the pipeline on the same inputs (the same feed answer or,
\* for synthetic observations, the same seed; the same roads and thresholds)
\* return the same statistics in every field and the same congestion levels.
C8_RunsAgree ==
    \A i, j \in 1..Len(history) :
        /\ history[i].stats = history[j].stats
        /\ history[i].levels = history[j].levels

----------------------------------------------------------------------------
(* Specification of the synthetic generator: calls at several clock readings *)

InitMock ==
    /\ IdleLoader
    /\ IdleApp
    /\ IdleSpatial
    /\ columns = NumericColumns
    /\ aggregated = NotCalled
    /\ IdleAnalyzer
    /\ use_mock = TRUE
    /\ now \in Instants
    /\ live = NoFeed
    /\ bbox \in Boxes
    /\ raw_gdf = <<>>
    /\ validated = NotCalled
    /\ fetched = NotCalled
    /\ origin = ""
    /\ status_info = NoStatus
    /\ history = <<>>
    /\ pc = "idle"

NextMock == GenerateMockData \/ Tick

SpecMock == InitMock /\ [][NextMock]_vars

\* C9: two calls of _generate_mock_data with the same seed, bbox and point
\* count at clock readings of the same hour return the same observations,
\* equal in every field, the time code included.
C9_SameHourSameObservations ==
    \A i, j \in 1..Len(history) :
        hour(history[i].at) = hour(history[j].at) =>
            history[i].fetched = history[j].fetched

\* the square of twice the distance of a point from the centre of the box
centre_distance2(l, box) ==
    (2 * l[1] - (box[1] + box[3])) * (2 * l[1] - (box[1] + box[3]))
    + (2 * l[2] - (box[2] + box[4])) * (2 * l[2] - (box[2] + box[4]))

\* C14: the baseline speed of the synthetic observations, before the time
\* factor and the noise, falls toward the centre of the box: of two points,
\* the one nearer the centre has a baseline no greater than the other's.
C14_NearerIsSlower ==
    fetched.called =>
        LET lons == [i \in 1..Len(fetched.rows) |-> fetched.rows[i].loc[1]]
            lats == [i \in 1..Len(fetched.rows) |-> fetched.rows[i].loc[2]]
            base == base_speeds(lons, lats, bbox)
        IN \A i, j \in 1..Len(fetched.rows) :
              centre_distance2(fetched.rows[i].loc, bbox)
                  < centre_distance2(fetched.rows[j].loc, bbox)
              => Le(base[i], base[j])

\* C24: every speed of the synthetic observations is a number from 5 to 80,
\* for every bbox (one whose minimum and maximum coincide included) and
\* every hour of the day.
C24_SpeedsWithinRange ==
    fetched.called =>
        \A n \in 1..Len(fetched.rows) :
            /\ IsNum(fetched.rows[n].speed)
            /\ Le(Num(5), fetched.rows[n].speed)
            /\ Le(fetched.rows[n].speed, Num(80))

----------------------------------------------------------------------------
(* Specification of the validation: any frame the feed can deliver *)

RawRows ==
    {RawRow(l, v, tt) :
        l \in {<<0, 0>>, <<>>},
        v \in {Num(30), Num(-5), Num(200), NaN, NonNumeric},
        tt \in {Num(12), Num(-1), NonNumeric}}

InitValidate ==
    /\ IdleLoader
    /\ IdleApp
    /\ IdleSpatial
    /\ columns \in {NumericColumns, {"link_length"}}
    /\ aggregated = NotCalled
    /\ IdleAnalyzer
    /\ use_mock = FALSE
    /\ now = 0
    /\ live = NoFeed
    /\ bbox = <<0, 0, 2, 1>>
    /\ raw_gdf \in SeqsUpTo(RawRows, MaxRaw)
    /\ validated = NotCalled
    /\ fetched = NotCalled
    /\ origin = ""
    /\ status_info = NoStatus
    /\ history = <<>>
    /\ pc = "idle"

NextValidate == ValidateTrafficData

SpecValidate == InitValidate /\ [][NextValidate]_vars

\* a numeric field as the claim wants it: the number when it is one and in
\* range, null otherwise
InRangeOrNull(x, lo, hi) ==
    IF IsNum(to_numeric(x)) /\ Ge(to_numeric(x), Num(lo))
           /\ Le(to_numeric(x), Num(hi))
    THEN to_numeric(x) ELSE NaN

NonNegativeOrNull(x) ==
    IF IsNum(to_numeric(x)) /\ Ge(to_numeric(x), Num(0))
    THEN to_numeric(x) ELSE NaN

\* C10: validate_traffic_data never raises and returns every observation
\* that has a location, in order, with a speed outside 0..150, a negative
\* travel time, and a speed or travel time that is missing or not a number
\* replaced by null; only observations without location are removed.
C10_KeepsEveryLocatedRow ==
    validated.called =>
        /\ validated.raised = ""
        /\ validated.rows =
              LET located == SelectSeq(raw_gdf, LAMBDA r : r.loc # <<>>)
              IN [n \in 1..Len(located) |->
                    [located[n] EXCEPT
                        !.speed = IF "speed" \in columns
                                  THEN InRangeOrNull(@, 0, 150) ELSE @,
                        !.travel_time = IF "travel_time" \in columns
                                        THEN NonNegativeOrNull(@) ELSE @]]

----------------------------------------------------------------------------
(* Specification of the road loader: any shapefile, loads of several areas *)

MaxArchive == 2      \* segments of the shapefile

\* a segment of the shapefile: its N01_002 and N01_003 attributes (missing,
\* or a text) and its geometry (None for a record without shape)
ArchiveRows ==
    [N01_002 : {Null, Some(<<"1">>), Some(<<"0", "0", "1">>), Some(<<"2">>)},
     N01_003 : {Null, Some("A")},
     geometry : {[axis |-> "h", c |-> 0], [axis |-> "v", c |-> 2], NoGeometry}]

\* a shapefile without attribute columns
BareRows ==
    [N01_002 : {Null}, N01_003 : {Null},
     geometry : {[axis |-> "h", c |-> 0], [axis |-> "v", c |-> 2], NoGeometry}]

Archives ==
    {[exists |-> FALSE, columns |-> {}, rows |-> <<>>]}
    \cup {[exists |-> TRUE, columns |-> {"N01_002", "N01_003", "geometry"},
           rows |-> f] : f \in SeqsUpTo(ArchiveRows, MaxArchive)}
    \cup {[exists |-> TRUE, columns |-> {"geometry"}, rows |-> f] :
             f \in SeqsUpTo(BareRows, MaxArchive)}

InitLoad ==
    /\ IdleApp
    /\ IdleSpatial
    /\ columns = NumericColumns
    /\ aggregated = NotCalled
    /\ IdleAnalyzer
    /\ IdleFeed
    /\ _cached_roads = NoCache
    /\ archive \in Archives
    /\ loaded = NoLoad
    /\ road_loads = 0
    /\ archive_reads = 0
    /\ pc = "idle"

NextLoad == LoadRoadNetwork

SpecLoad == InitLoad /\ [][NextLoad]_vars

\* C13: every road set that load_road_network returns has a road_id that is
\* not null on every segment, and no two of its segments share a road_id.
C13_RoadIdIsUnique ==
    loaded.called =>
        \A i \in 1..Len(loaded.rows) :
            /\ "road_id" \in loaded.columns
            /\ loaded.rows[i].road_id # Null
            /\ \A j \in 1..Len(loaded.rows) :
                  loaded.rows[i].road_id = loaded.rows[j].road_id => i = j

\* C23: the cached road set of a loader never changes once it is stored:
\* after any loads, with any bbox, it is the set read from the shapefile by
\* the first successful load, with the columns and rows it was read with.
C23_CacheKeepsFirstLoad ==
    ~_cached_roads.is_none =>
        /\ archive.exists
        /\ _cached_roads.columns = archive.columns
        /\ _cached_roads.rows = _load_from_zip(archive).rows

\* two loads of a shapefile without attribute columns (the case in which
\* road_id is assigned in place), the last returning one of its two
\* segments, the cache still as read
C23_Witness ==
    /\ road_loads = 2
    /\ archive.columns = {"geometry"}
    /\ Len(_cached_roads.rows) = 2
    /\ Len(loaded.rows) = 1

----------------------------------------------------------------------------
(* Specification of the application: script runs with any slider values *)

\* aggregated frames: none, one segment at 29.5, and segments at 32 and 20
AppFrames ==
    {<<>>, WithRoadIds(<<Segment(Frac(59, 2), 1)>>),
     WithRoadIds(<<Segment(Num(32), 1), Segment(Num(20), 2)>>)}

InitApp ==
    /\ IdleLoader
    /\ IdleApp
    /\ IdleSpatial
    /\ use_mock = TRUE
    /\ now = 12 * 60 + 10
    /\ live = NoFeed
    /\ bbox = <<0, 0, 2, 1>>
    /\ raw_gdf = <<>>
    /\ validated = NotCalled
    /\ fetched = NotCalled
    /\ origin = ""
    /\ status_info = NoStatus
    /\ history = <<>>
    /\ columns = NumericColumns \cup {"observation_count"}
    /\ aggregated \in {Returned(f) : f \in AppFrames}
    /\ thresholds = NoThresholds
    /\ speed_thresholds = CongestionAnalyzer(thresholds)
    /\ congestion_data = NotCalled
    /\ stats = NoStatistics
    /\ rerun = NoRerun
    /\ pc = "app"

NextApp == Main \/ Tick

SpecApp == InitApp /\ [][NextApp]_vars

\* C27: the thresholds the user has selected when create_traffic_map is
\* invoked are the thresholds the returned segments are classified with,
\* and the returned statistics are those of that classification: after a
\* change of the thresholds no result of a run with the old values is
\* returned.
C27_SelectedThresholdsAreUsed ==
    pc = "shown" =>
        LET made == create_traffic_map(thresholds, aggregated.rows, columns, now)
        IN /\ congestion_data.rows = made.rows
           /\ stats.congestion_distribution = made.stats.congestion_distribution

====
